---- MODULE Spec2Model ----
(***************************************************************************)
(* Model of the timetable application in src/script.js: the weekly render  *)
(* (occurrence expansion, current/next resolution, track layout) and the   *)
(* monthly calendar grid (getEventsForDay).                                *)
(*                                                                         *)
(* A JavaScript Date is modelled by its time value in MINUTES since        *)
(* 1970-01-01T00:00Z.  The host timezone is a fixed offset tz (minutes     *)
(* east of UTC, so Date.getTimezoneOffset() = -tz); the local fields of a  *)
(* Date (getDate, getDay, getHours ...) are those of the civil time        *)
(* t + tz.  An ISO date string "YYYY-MM-DD" is the triple <<y, m, d>>; a   *)
(* time string "HH:MM" is its sequence of characters, a digit being its    *)
(* value and ':' the code Colon.                                           *)
(***************************************************************************)
EXTENDS Integers, Sequences, FiniteSets, TLC

VARIABLES tz, clock, data, week, currentMonthDate, month, view,
          previousView, form, currentDetailItem, pendingTimers,
          visibilityState

vars == <<tz, clock, data, week, currentMonthDate, month, view,
          previousView, form, currentDetailItem, pendingTimers,
          visibilityState>>

NULL == [null |-> TRUE]

----------------------------------------------------------------------------
(* The proleptic Gregorian calendar of the JavaScript engine.              *)

MinutesPerDay == 1440

\* day number (days since 1970-01-01) of the civil date y-m-d; d may lie
\* outside the month, as Date.setDate allows
DaysFromCivil(y, m, d) ==
  LET yy  == IF m <= 2 THEN y - 1 ELSE y
      era == yy \div 400
      yoe == yy - era * 400
      mp  == IF m > 2 THEN m - 3 ELSE m + 9
      doy == (153 * mp + 2) \div 5 + d - 1
      doe == yoe * 365 + yoe \div 4 - yoe \div 100 + doy
  IN  era * 146097 + doe - 719468

\* civil date <<y, m, d>> of a day number
CivilFromDays(z0) ==
  LET z   == z0 + 719468
      era == z \div 146097
      doe == z - era * 146097
      yoe == (doe - doe \div 1460 + doe \div 36524 - doe \div 146096) \div 365
      doy == doe - (365 * yoe + yoe \div 4 - yoe \div 100)
      mp  == (5 * doy + 2) \div 153
      d   == doy - (153 * mp + 2) \div 5 + 1
      m   == IF mp < 10 THEN mp + 3 ELSE mp - 9
      y   == yoe + era * 400
  IN  <<IF m <= 2 THEN y + 1 ELSE y, m, d>>

\* 0 = Sunday ... 6 = Saturday; 1970-01-01 was a Thursday
WeekdayOfDays(z) == (z + 4) % 7

----------------------------------------------------------------------------
(* Date methods, for a host at offset zone.                                *)

LocalDay(zone, t)      == (t + zone) \div MinutesPerDay
LocalMinute(zone, t)   == (t + zone) % MinutesPerDay

getTimezoneOffset(zone) == 0 - zone
getDay(zone, t)        == WeekdayOfDays(LocalDay(zone, t))
getDate(zone, t)       == CivilFromDays(LocalDay(zone, t))[3]
getMonth(zone, t)      == CivilFromDays(LocalDay(zone, t))[2] - 1
getFullYear(zone, t)   == CivilFromDays(LocalDay(zone, t))[1]
getHours(zone, t)      == LocalMinute(zone, t) \div 60
getMinutes(zone, t)    == LocalMinute(zone, t) % 60

\* new Date(y, monthIndex, d): local midnight; d may be 0 or negative
NewDateLocal(zone, y, mi, d) ==
  DaysFromCivil(y + mi \div 12, (mi % 12) + 1, d) * MinutesPerDay - zone

\* new Date("YYYY-MM-DD"): a date-only string is midnight UTC
NewDateFromISO(iso) == DaysFromCivil(iso[1], iso[2], iso[3]) * MinutesPerDay

\* Date.setDate(n): day n of the Date's local month, time of day kept,
\* overflowing into the neighbouring months
setDate(zone, t, n) ==
  LET c == CivilFromDays(LocalDay(zone, t))
  IN  DaysFromCivil(c[1], c[2], n) * MinutesPerDay + LocalMinute(zone, t) - zone

\* Date.setHours(0,0,0,0)
setHoursZero(zone, t) == LocalDay(zone, t) * MinutesPerDay - zone

\* Date.setMonth(mi): month index mi of the Date's local year (any integer),
\* day of month kept and overflowing
setMonth(zone, t, mi) ==
  LET c == CivilFromDays(LocalDay(zone, t))
  IN  DaysFromCivil(c[1] + mi \div 12, (mi % 12) + 1, c[3]) * MinutesPerDay
        + LocalMinute(zone, t) - zone

\* Date.toISOString().slice(0, 10): the UTC date
toISODate(t) == CivilFromDays(t \div MinutesPerDay)

----------------------------------------------------------------------------
(* Hong Kong Time utilities                                                *)

HKTOffset == 480

\* getHKTDate(date) for a Date argument (or the current instant)
getHKTDate(zone, t) == t + getTimezoneOffset(zone) + HKTOffset

\* getHKTDate(str) for an ISO date string
getHKTDateISO(zone, iso) == getHKTDate(zone, NewDateFromISO(iso))

formatHKTDateString(zone, t) == toISODate(getHKTDate(zone, t))

DayNames == <<"Sunday", "Monday", "Tuesday", "Wednesday", "Thursday",
              "Friday", "Saturday">>

weekdayName(zone, t) == DayNames[getDay(zone, t) + 1]

startOfWeek(zone, t) ==
  LET dt  == getHKTDate(zone, t)
      day == IF getDay(zone, dt) = 0 THEN 7 ELSE getDay(zone, dt)
  IN  setHoursZero(zone, setDate(zone, dt, getDate(zone, dt) - day + 1))

----------------------------------------------------------------------------
(* Strings and arrays                                                      *)

Colon == 10

\* Array.prototype.includes
Includes(arr, x) == \E i \in 1..Len(arr) : arr[i] = x

\* String.prototype.split(':')
RECURSIVE Split(_)
Split(s) ==
  LET pos == {i \in 1..Len(s) : s[i] = Colon}
  IN  IF pos = {} THEN <<s>>
      ELSE LET p == CHOOSE i \in pos : \A j \in pos : i <= j
           IN  <<SubSeq(s, 1, p - 1)>> \o Split(SubSeq(s, p + 1, Len(s)))

\* Number(str) for a string of decimal digits
RECURSIVE Number(_)
Number(s) ==
  IF Len(s) = 0 THEN 0
  ELSE Number(SubSeq(s, 1, Len(s) - 1)) * 10 + s[Len(s)]

\* const [h, m] = str.split(':').map(Number)
HourOf(str)   == Number(Split(str)[1])
MinuteOf(str) == Number(Split(str)[2])

\* h*60 + m
MinutesOf(str) == HourOf(str) * 60 + MinuteOf(str)

\* Array.prototype.sort with a consistent comparator is a stable sort: an
\* element goes after those that compare smaller and after the equal ones
\* that precede it in the input.  less[i][j] is the comparator's verdict
\* "s[i] before s[j]".
StableSort(s, less) ==
  LET n == Len(s)
      rank(i) == 1 + Cardinality({j \in 1..n :
                        less[j][i] \/ (~less[i][j] /\ j < i)})
  IN  [k \in 1..n |-> s[CHOOSE i \in 1..n : rank(i) = k]]

----------------------------------------------------------------------------
(* render(): occurrences of the visible week                               *)

DaysInWeek == 7

\* const day = getHKTDate(weekStart); day.setDate(weekStart.getDate()+d)
WeekDayDate(zone, weekStart, d) ==
  setDate(zone, getHKTDate(zone, weekStart), getDate(zone, weekStart) + d)

\* the three tests of the expansion loop, for one item and one day
OccursOn(zone, item, day) ==
  LET start == getHKTDateISO(zone, item.startDate)
      end   == getHKTDateISO(zone, item.endDate)
  IN  /\ Includes(item.weekdays, weekdayName(zone, day))
      /\ ~(day < start \/ day > end)
      /\ ~Includes(item.exceptions, formatHKTDateString(zone, day))

\* data.forEach((item, idx) => { for (d = 0; d < 7; d++) ... push })
Occurrences(zone, dat, weekStart) ==
  LET all  == [k \in 1..(Len(dat) * DaysInWeek) |->
                 LET idx == ((k - 1) \div DaysInWeek) + 1
                     day == WeekDayDate(zone, weekStart, (k - 1) % DaysInWeek)
                 IN  [idx |-> idx, day |-> day,
                      iso |-> formatHKTDateString(zone, day)]]
      keep(o) == OccursOn(zone, dat[o.idx], o.day)
  IN  SelectSeq(all, keep)

\* as OccLess, but only the day decides
OccLessDayOnly(a, b) == a.day < b.day

\* (a, b) => a.day - b.day || a.startM - b.startM
OccLess(a, b) == a.day < b.day \/ (a.day = b.day /\ a.startM < b.startM)

\* occurrences.map(... startM, endM ...).sort(...)
OccTimes(dat, occurrences) ==
  LET mapped == [k \in 1..Len(occurrences) |->
                   [idx    |-> occurrences[k].idx,
                    day    |-> occurrences[k].day,
                    iso    |-> occurrences[k].iso,
                    startM |-> MinutesOf(dat[occurrences[k].idx].startTime),
                    endM   |-> MinutesOf(dat[occurrences[k].idx].endTime)]]
  IN  StableSort(mapped, [i \in 1..Len(mapped) |-> [j \in 1..Len(mapped) |->
                            OccLess(mapped[i], mapped[j])]])

----------------------------------------------------------------------------
(* render(): current, nextToday and next                                   *)

IsToday(zone, now, o) ==
  formatHKTDateString(zone, o.day) = formatHKTDateString(zone, now)

\* one iteration of for (const o of occTimes)
ResolveStep(zone, now, nowTime, st, o) ==
  LET isToday == IsToday(zone, now, o)
  IN  [current  |-> IF isToday /\ o.startM <= nowTime /\ o.endM > nowTime
                    THEN o ELSE st.current,
       hasClassesToday |-> st.hasClassesToday \/ isToday,
       nextToday |-> IF isToday /\ st.nextToday = NULL /\ o.startM > nowTime
                     THEN o ELSE st.nextToday,
       next     |-> IF st.next = NULL
                       /\ (o.day > now \/ (isToday /\ o.startM > nowTime))
                    THEN o ELSE st.next]

RECURSIVE ResolveLoop(_, _, _, _, _, _)
ResolveLoop(zone, now, nowTime, occTimes, i, st) ==
  IF i > Len(occTimes) THEN st
  ELSE ResolveLoop(zone, now, nowTime, occTimes, i + 1,
                   ResolveStep(zone, now, nowTime, st, occTimes[i]))

Resolve(zone, now, occTimes) ==
  ResolveLoop(zone, now, getHours(zone, now) * 60 + getMinutes(zone, now),
              occTimes, 1,
              [current |-> NULL, hasClassesToday |-> FALSE,
               nextToday |-> NULL, next |-> NULL])

----------------------------------------------------------------------------
(* render(): the day columns and their track layout                        *)

Days == <<"Monday", "Tuesday", "Wednesday", "Thursday", "Friday", "Saturday">>

Min2(a, b) == IF a < b THEN a ELSE b
Max2(a, b) == IF a > b THEN a ELSE b

\* the first hour row of the table
EarliestHour(dat) ==
  LET shown == {i \in 1..Len(dat) :
                  \E k \in 1..Len(dat[i].weekdays) :
                     Includes(Days, dat[i].weekdays[k])}
      lo == IF shown = {} THEN 22
            ELSE Min2(22, CHOOSE h \in {HourOf(dat[i].startTime) : i \in shown} :
                   \A i \in shown : h <= HourOf(dat[i].startTime))
      hi == IF shown = {} THEN 6
            ELSE Max2(6, CHOOSE h \in {HourOf(dat[i].endTime) : i \in shown} :
                   \A i \in shown : h >= HourOf(dat[i].endTime))
  IN  IF lo > hi THEN 8 ELSE Max2(0, lo - 1)

\* data.filter(...) of one column: the indices of the items kept
DayClasses(zone, dat, weekStart, dayIndex) ==
  LET checkDay == WeekDayDate(zone, weekStart, dayIndex)
      keep(i) ==
        LET item == dat[i] IN
        /\ Includes(item.weekdays, Days[dayIndex + 1])
        /\ ~(checkDay < getHKTDateISO(zone, item.startDate)
               \/ checkDay > getHKTDateISO(zone, item.endDate))
        /\ ~Includes(item.exceptions, formatHKTDateString(zone, checkDay))
  IN  SelectSeq([i \in 1..Len(dat) |-> i], keep)

\* dayClasses.sort(...): by start minute, then by end minute
SortedDayClasses(dat, dayClasses) ==
  LET less(a, b) ==
        \/ MinutesOf(dat[a].startTime) < MinutesOf(dat[b].startTime)
        \/ /\ MinutesOf(dat[a].startTime) = MinutesOf(dat[b].startTime)
           /\ MinutesOf(dat[a].endTime) < MinutesOf(dat[b].endTime)
  IN  StableSort(dayClasses,
                 [i \in 1..Len(dayClasses) |-> [j \in 1..Len(dayClasses) |->
                    less(dayClasses[i], dayClasses[j])]])

\* as FindTrack, but a track counts as free when the last minute of the
\* span is free on it
RECURSIVE FindTrackLastMinute(_, _, _, _)
FindTrackLastMinute(slots, s, e, t) ==
  IF s < e /\ <<e - 1, t>> \in slots
  THEN FindTrackLastMinute(slots, s, e, t + 1)
  ELSE t

\* as FindTrack, but a track counts as free only while nothing at all has
\* been marked on it
RECURSIVE FindTrackUnused(_, _, _, _)
FindTrackUnused(slots, s, e, t) ==
  IF \E p \in slots : p[2] = t
  THEN FindTrackUnused(slots, s, e, t + 1)
  ELSE t

\* while (!foundTrack): the first track, from t on, that is free on every
\* minute of [s, e); slots is the set of <<minute, track>> marked in timeSlotMap
RECURSIVE FindTrack(_, _, _, _)
FindTrack(slots, s, e, t) ==
  IF \E min \in s..(e - 1) : <<min, t>> \in slots
  THEN FindTrack(slots, s, e, t + 1)
  ELSE t

\* as AssignTracks, but the minute at which a class ends is marked too
RECURSIVE AssignTracksClosed(_, _, _, _, _, _)
AssignTracksClosed(dat, earliest, sorted, k, slots, classTracks) ==
  IF k > Len(sorted) THEN [slots |-> slots, classTracks |-> classTracks]
  ELSE LET item  == dat[sorted[k]]
           s     == (HourOf(item.startTime) - earliest) * 60
                      + MinuteOf(item.startTime)
           e     == (HourOf(item.endTime) - earliest) * 60
                      + MinuteOf(item.endTime)
           track == FindTrack(slots, s, e, 0)
       IN  AssignTracksClosed(dat, earliest, sorted, k + 1,
                              slots \cup {<<min, track>> : min \in s..e},
                              Append(classTracks, track))

\* as AssignTracks, but a class marks its span on its own track and on
\* every track below it
RECURSIVE AssignTracksAllBelow(_, _, _, _, _, _)
AssignTracksAllBelow(dat, earliest, sorted, k, slots, classTracks) ==
  IF k > Len(sorted) THEN [slots |-> slots, classTracks |-> classTracks]
  ELSE LET item  == dat[sorted[k]]
           s     == (HourOf(item.startTime) - earliest) * 60
                      + MinuteOf(item.startTime)
           e     == (HourOf(item.endTime) - earliest) * 60
                      + MinuteOf(item.endTime)
           track == FindTrack(slots, s, e, 0)
       IN  AssignTracksAllBelow(dat, earliest, sorted, k + 1,
                                slots \cup {<<min, t>> : min \in s..(e - 1),
                                                        t \in 0..track},
                                Append(classTracks, track))

\* the first pass over sortedDayClasses, from position k on
RECURSIVE AssignTracks(_, _, _, _, _, _)
AssignTracks(dat, earliest, sorted, k, slots, classTracks) ==
  IF k > Len(sorted) THEN [slots |-> slots, classTracks |-> classTracks]
  ELSE LET item  == dat[sorted[k]]
           s     == (HourOf(item.startTime) - earliest) * 60
                      + MinuteOf(item.startTime)
           e     == (HourOf(item.endTime) - earliest) * 60
                      + MinuteOf(item.endTime)
           track == FindTrack(slots, s, e, 0)
       IN  AssignTracks(dat, earliest, sorted, k + 1,
                        slots \cup {<<min, track>> : min \in s..(e - 1)},
                        Append(classTracks, track))

\* as TotalTracks, but the highest track index instead of the track count
TotalTracksHighestIndex(slots) ==
  Max2(1, IF slots = {} THEN 0
          ELSE CHOOSE t \in {p[2] : p \in slots} :
                 \A p \in slots : p[2] <= t)

\* Math.max(1, number of distinct track keys in timeSlotMap)
TotalTracks(slots) == Max2(1, Cardinality({p[2] : p \in slots}))

\* one column of the table: the items, their tracks, the track count
Column(zone, dat, weekStart, dayIndex) ==
  LET sorted == SortedDayClasses(dat, DayClasses(zone, dat, weekStart, dayIndex))
      pass   == AssignTracks(dat, EarliestHour(dat), sorted, 1, {}, <<>>)
  IN  [classes     |-> sorted,
       classTracks |-> pass.classTracks,
       totalTracks |-> TotalTracks(pass.slots)]

\* everything render() computes from the stored list and the clock
RenderWeek(zone, t, dat) ==
  LET now       == getHKTDate(zone, t)
      weekStart == startOfWeek(zone, now)
      occTimes  == OccTimes(dat, Occurrences(zone, dat, weekStart))
      res       == Resolve(zone, now, occTimes)
  IN  [now       |-> now,
       weekStart |-> weekStart,
       occTimes  |-> occTimes,
       current   |-> res.current,
       nextToday |-> res.nextToday,
       next      |-> res.next,
       columns   |-> [dayIndex \in 0..(Len(Days) - 1) |->
                        Column(zone, dat, weekStart, dayIndex)]]

----------------------------------------------------------------------------
(* renderMonthly() and getEventsForDay()                                   *)

GridDays == 42

\* String.prototype.localeCompare(...) < 0 for strings of digits and ':'
\* (punctuation collates before the digits)
RECURSIVE LocaleLess(_, _)
LocaleLess(a, b) ==
  LET w(c) == IF c = Colon THEN 0 - 1 ELSE c
  IN  IF Len(b) = 0 THEN FALSE
      ELSE IF Len(a) = 0 THEN TRUE
      ELSE IF w(Head(a)) # w(Head(b)) THEN w(Head(a)) < w(Head(b))
      ELSE LocaleLess(Tail(a), Tail(b))

\* the indices of the items that have an event on the Date date, sorted by
\* start time string
getEventsForDay(zone, dat, date) ==
  LET dateStr == formatHKTDateString(zone, date)
      dayName == weekdayName(zone, date)
      keep(i) ==
        LET item == dat[i] IN
        /\ date >= getHKTDateISO(zone, item.startDate)
        /\ date <= getHKTDateISO(zone, item.endDate)
        /\ Includes(item.weekdays, dayName)
        /\ ~Includes(item.exceptions, dateStr)
      timeOf(i) == IF Len(dat[i].startTime) = 0
                   THEN <<0, 0, Colon, 0, 0>> ELSE dat[i].startTime
      events == SelectSeq([i \in 1..Len(dat) |-> i], keep)
  IN  StableSort(events,
                 [i \in 1..Len(events) |-> [j \in 1..Len(events) |->
                    LocaleLess(timeOf(events[i]), timeOf(events[j]))]])

\* the Date of the first cell of the grid of the month of monthDate
GridStart(zone, monthDate) ==
  LET firstDay  == getHKTDate(zone, NewDateLocal(zone, getFullYear(zone, monthDate),
                                                 getMonth(zone, monthDate), 1))
      startDate == setDate(zone, getHKTDate(zone, firstDay),
                           getDate(zone, getHKTDate(zone, firstDay))
                             - getDay(zone, firstDay))
  IN  getHKTDate(zone, startDate)

\* as GridCells, but each step converts the Date with getHKTDate again, as
\* the weekly loop does
RECURSIVE GridCellsReconverted(_, _, _, _)
GridCellsReconverted(zone, dat, first, n) ==
  IF n = 0 THEN <<>>
  ELSE <<[date      |-> first,
          dayNumber |-> getDate(zone, first),
          events    |-> getEventsForDay(zone, dat, first)]>>
       \o GridCellsReconverted(zone, dat,
                               setDate(zone, getHKTDate(zone, first),
                                       getDate(zone, first) + 1),
                               n - 1)

\* the (up to GridDays) cells of the grid, from the Date first on, in order
RECURSIVE GridCells(_, _, _, _)
GridCells(zone, dat, first, n) ==
  IF n = 0 THEN <<>>
  ELSE <<[date      |-> first,
          dayNumber |-> getDate(zone, first),
          events    |-> getEventsForDay(zone, dat, first)]>>
       \o GridCells(zone, dat, setDate(zone, first, getDate(zone, first) + 1),
                    n - 1)

\* everything renderMonthly() computes
RenderMonth(zone, monthDate, dat) ==
  [year  |-> getFullYear(zone, monthDate),
   month |-> getMonth(zone, monthDate),
   cells |-> GridCells(zone, dat, GridStart(zone, monthDate), GridDays)]

----------------------------------------------------------------------------
(* The inputs: host timezones, instants, stored definitions                *)

\* at most this many stored definitions
MaxDefs == 3

\* at most this many stored definitions when the calendar is explored
MaxCalendarDefs == 2

\* the month shown can be moved at most this many months away from 2025-09
MonthSpan == 1

\* hosts in Hong Kong (UTC+8), at UTC, and in Tokyo (UTC+9)
HostZones == {480, 0, 540}

\* the instant at which a clock in Hong Kong shows y-m-d h:mi
AtHKT(y, m, d, h, mi) ==
  DaysFromCivil(y, m, d) * MinutesPerDay + h * 60 + mi - HKTOffset

\* Monday 2025-09-01 07:30, 10:15, 10:30 and 17:00 in Hong Kong
Instants ==
  { AtHKT(2025, 9, 1, 7, 30), AtHKT(2025, 9, 1, 10, 15),
    AtHKT(2025, 9, 1, 10, 30), AtHKT(2025, 9, 1, 17, 0) }

\* the value of an <input type="time">: "HH:MM"
TimeString(h, mi) == <<h \div 10, h % 10, Colon, mi \div 10, mi % 10>>

ClassItem(crn, weekdays, startDate, endDate, startTime, endTime, exceptions) ==
  [crn |-> crn, title |-> crn, weekdays |-> weekdays,
   startDate |-> startDate, endDate |-> endDate,
   startTime |-> startTime, endTime |-> endTime, exceptions |-> exceptions]

ItemPool ==
  { ClassItem("A", <<"Monday">>, <<2025, 9, 1>>, <<2025, 11, 29>>,
              TimeString(9, 0), TimeString(10, 30), << <<2025, 9, 29>> >>),
    ClassItem("B", <<"Monday">>, <<2025, 8, 25>>, <<2025, 11, 29>>,
              TimeString(10, 0), TimeString(11, 0), <<>>),
    ClassItem("C", <<"Monday", "Tuesday">>, <<2025, 8, 25>>, <<2025, 9, 2>>,
              TimeString(10, 30), TimeString(11, 30), <<>>),
    ClassItem("D", <<"Monday", "Wednesday">>, <<2025, 8, 25>>, <<2025, 11, 29>>,
              TimeString(11, 0), TimeString(12, 0), << <<2025, 9, 3>> >>),
    ClassItem("E", <<"Tuesday", "Sunday">>, <<2025, 8, 25>>, <<2025, 11, 29>>,
              TimeString(10, 0), TimeString(11, 0), <<>>) }

StoredLists == UNION {[1..n -> ItemPool] : n \in 0..MaxDefs}

CalendarLists == UNION {[1..n -> ItemPool] : n \in 0..MaxCalendarDefs}

----------------------------------------------------------------------------
(* The state machine                                                       *)

\* a showView that records the visible view whatever it is
PreviousAfterAny(name) ==
  IF name # "detail" THEN view ELSE previousView

\* showView(name): the value of previousView after the call.  The visible
\* view is recorded unless it is the detail view or the detail view is the
\* one being shown
PreviousAfter(name) ==
  IF name # "detail" /\ view \in {"home", "monthly", "list", "add"}
  THEN view ELSE previousView

\* a render() that sets its timer without clearing the one it set before
SetRefreshTimerKeeping(n) ==
  n + 1

\* the number of pending refresh timers after render(), n before it:
\* clearTimeout(window._timetableRefreshTimer) cancels the timer render()
\* set last if it is still pending, then setTimeout sets a new one
SetRefreshTimer(n) ==
  (IF n > 0 THEN n - 1 ELSE 0) + 1

\* the class form after form.reset(), with an empty exceptions list
BlankForm ==
  [editingIndex |-> <<>>, crn |-> "", title |-> "", weekdays |-> {},
   startDate |-> <<>>, endDate |-> <<>>, startTime |-> <<>>,
   endTime |-> <<>>, exceptions |-> <<>>]

\* the rest of the page once it has loaded: no detail item, the form
\* untouched, the refresh timer of the first render() pending
PageLoaded ==
  /\ previousView = "home"
  /\ form = BlankForm
  /\ currentDetailItem = NULL
  /\ pendingTimers = 1
  /\ visibilityState = "visible"

\* the page has loaded: DOMContentLoaded has run showView('home') and render()
Init ==
  /\ tz \in HostZones
  /\ clock \in Instants
  /\ data \in StoredLists
  /\ week = RenderWeek(tz, clock, data)
  /\ currentMonthDate = getHKTDate(tz, clock)
  /\ month = NULL
  /\ view = "home"
  /\ PageLoaded

\* time passes
Tick ==
  /\ \E t \in Instants : t > clock /\ clock' = t
  /\ UNCHANGED <<tz, data, week, currentMonthDate, month, view, previousView,
                 form, currentDetailItem, pendingTimers, visibilityState>>

\* as ShowHome, but render() sorts the loaded list itself by start and end
\* time, instead of a filtered copy of it, and saves it
ShowHomeSaving ==
  /\ view' = "home"
  /\ data' = [k \in 1..Len(data) |->
                data[SortedDayClasses(data, [i \in 1..Len(data) |-> i])[k]]]
  /\ week' = RenderWeek(tz, clock, data')
  /\ previousView' = PreviousAfter("home")
  /\ pendingTimers' = SetRefreshTimer(pendingTimers)
  /\ UNCHANGED <<tz, clock, currentMonthDate, month, form, currentDetailItem,
                 visibilityState>>

\* showView('home'): render(), which leaves a refresh timer pending
ShowHome ==
  /\ view' = "home"
  /\ week' = RenderWeek(tz, clock, data)
  /\ previousView' = PreviousAfter("home")
  /\ pendingTimers' = SetRefreshTimer(pendingTimers)
  /\ UNCHANGED <<tz, clock, data, currentMonthDate, month, form,
                 currentDetailItem, visibilityState>>

\* showView('monthly'): renderMonthly()
ShowMonthly ==
  /\ view' = "monthly"
  /\ month' = RenderMonth(tz, currentMonthDate, data)
  /\ previousView' = PreviousAfter("monthly")
  /\ UNCHANGED <<tz, clock, data, week, currentMonthDate, form,
                 currentDetailItem, pendingTimers, visibilityState>>

\* months between the month of the Date t and September 2025
MonthsAway(t) ==
  LET d == (getFullYear(tz, t) - 2025) * 12 + getMonth(tz, t) - 8
  IN  IF d < 0 THEN 0 - d ELSE d

\* the listener renderMonthly() puts on #prevMonth
PrevMonth ==
  /\ view = "monthly"
  /\ LET d == setMonth(tz, currentMonthDate, getMonth(tz, currentMonthDate) - 1)
     IN  /\ MonthsAway(d) <= MonthSpan
         /\ currentMonthDate' = d
         /\ month' = RenderMonth(tz, d, data)
  /\ UNCHANGED <<tz, clock, data, week, view, previousView, form,
                 currentDetailItem, pendingTimers, visibilityState>>

\* the listener renderMonthly() puts on #nextMonth
NextMonth ==
  /\ view = "monthly"
  /\ LET d == setMonth(tz, currentMonthDate, getMonth(tz, currentMonthDate) + 1)
     IN  /\ MonthsAway(d) <= MonthSpan
         /\ currentMonthDate' = d
         /\ month' = RenderMonth(tz, d, data)
  /\ UNCHANGED <<tz, clock, data, week, view, previousView, form,
                 currentDetailItem, pendingTimers, visibilityState>>

\* the listener renderMonthly() puts on #todayMonth
TodayMonth ==
  /\ view = "monthly"
  /\ currentMonthDate' = getHKTDate(tz, clock)
  /\ month' = RenderMonth(tz, getHKTDate(tz, clock), data)
  /\ UNCHANGED <<tz, clock, data, week, view, previousView, form,
                 currentDetailItem, pendingTimers, visibilityState>>

----------------------------------------------------------------------------
(* The store, the class form and the detail view                           *)

\* saveData(list) at instant t: the list that reaches localStorage
saveData(zone, t, list) ==
  LET now          == getHKTDate(zone, t)
      sixMonthsAgo == setMonth(zone, now, getMonth(zone, now) - 6)
      keep(item)   == getHKTDateISO(zone, item.endDate) >= sixMonthsAgo
  IN  SelectSeq(list, keep)

\* String(n) for an index n >= 0, as the characters of its decimal digits
RECURSIVE IndexString(_)
IndexString(n) == IF n < 10 THEN <<n>> ELSE IndexString(n \div 10) \o <<n % 10>>

\* the weekday checkboxes of the form, in document order
CheckboxOrder == <<"Monday", "Tuesday", "Wednesday", "Thursday", "Friday",
                   "Saturday", "Sunday">>

\* Array.from(querySelectorAll('#weekdayCheckboxes input:checked')).map(value)
CheckedWeekdays(checked) ==
  LET isChecked(name) == name \in checked
  IN  SelectSeq(CheckboxOrder, isChecked)

\* the item the submit handler builds from the form
FormItem(f) ==
  [crn |-> f.crn, title |-> f.title, weekdays |-> CheckedWeekdays(f.weekdays),
   startDate |-> f.startDate, endDate |-> f.endDate,
   startTime |-> f.startTime, endTime |-> f.endTime,
   exceptions |-> f.exceptions]

\* the form when loadIntoForm(index) returns: showView('add') has emptied
\* it, the fields and the checkboxes are set, and the statement
\*   list.innerHTML = ''
\*   (item.exceptions||[]).forEach(...)
\* is one expression that calls the string '' and throws a TypeError, so
\* the exceptions list stays empty
LoadedForm(index, item) ==
  [editingIndex |-> IndexString(index), crn |-> item.crn, title |-> item.title,
   weekdays |-> {name \in {CheckboxOrder[k] : k \in 1..Len(CheckboxOrder)} :
                   Includes(item.weekdays, name)},
   startDate |-> item.startDate, endDate |-> item.endDate,
   startTime |-> item.startTime, endTime |-> item.endTime,
   exceptions |-> <<>>]

\* data.findIndex(d => d.crn === item.crn && d.title === item.title): the
\* (0-based) index of the first match, or -1
FindIndex(list, item) ==
  LET hits == {k \in 1..Len(list) :
                 list[k].crn = item.crn /\ list[k].title = item.title}
  IN  IF hits = {} THEN 0 - 1
      ELSE (CHOOSE k \in hits : \A j \in hits : k <= j) - 1

\* data.splice(index, 1)
Splice(list, index) ==
  SubSeq(list, 1, index) \o SubSeq(list, index + 2, Len(list))

\* showView('list'): renderList()
ShowList ==
  /\ view' = "list"
  /\ previousView' = PreviousAfter("list")
  /\ UNCHANGED <<tz, clock, data, week, currentMonthDate, month, form,
                 currentDetailItem, pendingTimers, visibilityState>>

\* showView('add'): the form is reset and its exceptions list emptied
ShowAdd ==
  /\ view' = "add"
  /\ previousView' = PreviousAfter("add")
  /\ form' = BlankForm
  /\ UNCHANGED <<tz, clock, data, week, currentMonthDate, month,
                 currentDetailItem, pendingTimers, visibilityState>>

\* the class a user types into the empty form
NewClass ==
  ClassItem("N", <<"Tuesday">>, <<2025, 9, 2>>, <<2025, 11, 25>>,
            TimeString(13, 0), TimeString(14, 0), <<>>)

\* the user fills in the empty form of a new class
Fill ==
  /\ view = "add"
  /\ form = BlankForm
  /\ form' = [editingIndex |-> <<>>, crn |-> NewClass.crn,
              title |-> NewClass.title,
              weekdays |-> {NewClass.weekdays[k] :
                              k \in 1..Len(NewClass.weekdays)},
              startDate |-> NewClass.startDate, endDate |-> NewClass.endDate,
              startTime |-> NewClass.startTime, endTime |-> NewClass.endTime,
              exceptions |-> <<>>]
  /\ UNCHANGED <<tz, clock, data, week, currentMonthDate, month, view,
                 previousView, currentDetailItem, pendingTimers,
                 visibilityState>>

\* at most this many stored definitions when the store is written
MaxStoreDefs == 2

\* the list the submit handler passes to saveData
SubmitList ==
  IF Len(form.editingIndex) > 0
  THEN [data EXCEPT ![Number(form.editingIndex) + 1] = FormItem(form)]
  ELSE Append(data, FormItem(form))

\* the submit handler of the class form, for a form that has been filled in
Submit ==
  /\ view = "add"
  /\ form # BlankForm
  /\ IF Len(form.editingIndex) > 0
     THEN Number(form.editingIndex) < Len(data)
     ELSE Len(data) < MaxStoreDefs
  /\ data' = saveData(tz, clock, SubmitList)
  /\ view' = "home"
  /\ previousView' = PreviousAfter("home")
  /\ week' = RenderWeek(tz, clock, data')
  /\ pendingTimers' = SetRefreshTimer(pendingTimers)
  /\ UNCHANGED <<tz, clock, currentMonthDate, month, form,
                 currentDetailItem, visibilityState>>

\* definition i (1-based) is on the page: the list view has every
\* definition, the timetable and the calendar those with an occurrence shown
Displayed(i) ==
  \/ view = "list"
  \/ /\ view = "home"
     /\ \E k \in 1..Len(week.occTimes) : week.occTimes[k].idx = i
  \/ /\ view = "monthly"
     /\ month # NULL
     /\ \E c \in 1..Len(month.cells) : Includes(month.cells[c].events, i)

\* showClassDetails(item) for a displayed definition
ShowClassDetails(i) ==
  /\ i \in 1..Len(data)
  /\ Displayed(i)
  /\ previousView' = IF view \in {"home", "monthly", "list", "add"}
                     THEN view ELSE previousView
  /\ currentDetailItem' = data[i]
  /\ view' = "detail"
  /\ UNCHANGED <<tz, clock, data, week, currentMonthDate, month, form,
                 pendingTimers, visibilityState>>

\* the listener on #closeDetailBtn: showView(previousView)
CloseDetail ==
  /\ view = "detail"
  /\ view' = previousView
  /\ previousView' = PreviousAfter(previousView)
  /\ week' = IF previousView = "home"
             THEN RenderWeek(tz, clock, data) ELSE week
  /\ month' = IF previousView = "monthly"
              THEN RenderMonth(tz, currentMonthDate, data) ELSE month
  /\ pendingTimers' = IF previousView = "home"
                      THEN SetRefreshTimer(pendingTimers) ELSE pendingTimers
  /\ form' = IF previousView = "add" THEN BlankForm ELSE form
  /\ UNCHANGED <<tz, clock, data, currentMonthDate, currentDetailItem,
                 visibilityState>>

\* loadIntoForm(index), index 0-based, for an index that has a definition
LoadIntoForm(index) ==
  /\ index + 1 \in 1..Len(data)
  /\ view' = "add"
  /\ previousView' = PreviousAfter("add")
  /\ form' = LoadedForm(index, data[index + 1])
  /\ UNCHANGED <<tz, clock, data, week, currentMonthDate, month,
                 currentDetailItem, pendingTimers, visibilityState>>

\* the listener on #editClassBtn
EditFromDetail ==
  /\ view = "detail"
  /\ currentDetailItem # NULL
  /\ LET idx == FindIndex(data, currentDetailItem)
     IN  IF idx # 0 - 1 THEN LoadIntoForm(idx) ELSE UNCHANGED vars

\* the listener on #deleteClassBtn, the confirm dialog accepted
DeleteFromDetail ==
  /\ view = "detail"
  /\ currentDetailItem # NULL
  /\ LET idx == FindIndex(data, currentDetailItem)
     IN  IF idx # 0 - 1
         THEN /\ data' = saveData(tz, clock, Splice(data, idx))
              /\ view' = "home"
              /\ previousView' = PreviousAfter("home")
              /\ week' = RenderWeek(tz, clock, data')
              /\ pendingTimers' = SetRefreshTimer(pendingTimers)
              /\ UNCHANGED <<tz, clock, currentMonthDate, month, form,
                             currentDetailItem, visibilityState>>
         ELSE UNCHANGED vars

\* the Edit button renderList() puts on the entry of definition i (1-based)
EditFromList(i) ==
  /\ view = "list"
  /\ LoadIntoForm(i - 1)

\* deleteClass(index) from the Delete button of the entry of definition i
\* (1-based) in the list view, the confirm dialog accepted
DeleteFromList(i) ==
  /\ view = "list"
  /\ i \in 1..Len(data)
  /\ data' = saveData(tz, clock, Splice(data, i - 1))
  /\ UNCHANGED <<tz, clock, week, currentMonthDate, month, view,
                 previousView, form, currentDetailItem, pendingTimers,
                 visibilityState>>

\* clearAll(), the confirm dialog accepted: saveData([]) and render()
ClearAll ==
  /\ view \in {"home", "monthly", "list"}
  /\ data' = saveData(tz, clock, <<>>)
  /\ week' = RenderWeek(tz, clock, data')
  /\ pendingTimers' = SetRefreshTimer(pendingTimers)
  /\ UNCHANGED <<tz, clock, currentMonthDate, month, view, previousView,
                 form, currentDetailItem, visibilityState>>

\* the items of an imported array: has names the properties an item
\* carries with a truthy value, item gives their values
FullItem ==
  [has  |-> {"crn", "title", "weekdays", "startDate", "endDate",
             "startTime", "endTime"},
   item |-> ClassItem("I", <<"Tuesday">>, <<2025, 8, 26>>, <<2025, 11, 25>>,
                      TimeString(15, 0), TimeString(16, 0), <<>>)]

UntitledItem ==
  [has  |-> {"crn", "weekdays", "startDate", "endDate", "startTime",
             "endTime"},
   item |-> [ClassItem("J", <<"Monday">>, <<2025, 8, 25>>, <<2025, 11, 24>>,
                       TimeString(15, 0), TimeString(16, 0), <<>>)
               EXCEPT !.title = ""]]

BareItem ==
  [has  |-> {"title", "startTime", "endTime"},
   item |-> ClassItem("K", <<>>, <<>>, <<>>,
                      TimeString(16, 0), TimeString(17, 0), <<>>)]

\* the contents of the files chosen for import: text that JSON.parse
\* rejects, JSON that is not an array, and arrays of items
ImportFiles ==
  { [kind |-> "text", items |-> <<>>],
    [kind |-> "object", items |-> <<>>],
    [kind |-> "array", items |-> <<>>],
    [kind |-> "array", items |-> <<UntitledItem>>],
    [kind |-> "array", items |-> <<FullItem>>],
    [kind |-> "array", items |-> <<UntitledItem, FullItem>>],
    [kind |-> "array", items |-> <<BareItem>>] }

\* the filter of importJSON: item.title && item.startTime && item.endTime
Accepted(raw) ==
  /\ "title" \in raw.has
  /\ "startTime" \in raw.has
  /\ "endTime" \in raw.has

\* an accepted item once the missing fields have their default values
WithDefaults(zone, t, raw) ==
  LET now    == getHKTDate(zone, t)
      future == setMonth(zone, now, getMonth(zone, now) + 4)
  IN  [crn        |-> IF "crn" \in raw.has THEN raw.item.crn ELSE "N/A",
       title      |-> raw.item.title,
       weekdays   |-> IF "weekdays" \in raw.has
                      THEN raw.item.weekdays ELSE <<"Monday">>,
       startDate  |-> IF "startDate" \in raw.has THEN raw.item.startDate
                      ELSE formatHKTDateString(zone, now),
       endDate    |-> IF "endDate" \in raw.has THEN raw.item.endDate
                      ELSE formatHKTDateString(zone, future),
       startTime  |-> raw.item.startTime,
       endTime    |-> raw.item.endTime,
       exceptions |-> raw.item.exceptions]

\* validData of importJSON
ValidData(zone, t, file) ==
  LET valid == SelectSeq(file.items, Accepted)
  IN  [k \in 1..Len(valid) |-> WithDefaults(zone, t, valid[k])]

\* importJSON throws before it saves: the text is not JSON, or not an
\* array, or none of its items is accepted
ImportFails(file) ==
  \/ file.kind # "array"
  \/ SelectSeq(file.items, Accepted) = <<>>

\* an import that stores the imported items in place of the stored list
ImportReplacing(file) ==
  /\ view \in {"home", "monthly", "list"}
  /\ IF ImportFails(file)
     THEN UNCHANGED vars
     ELSE /\ Len(data) + Len(ValidData(tz, clock, file)) <= MaxStoreDefs
          /\ data' = saveData(tz, clock, ValidData(tz, clock, file))
          /\ week' = RenderWeek(tz, clock, data')
          /\ pendingTimers' = SetRefreshTimer(pendingTimers)
          /\ month' = IF view = "monthly"
                      THEN RenderMonth(tz, currentMonthDate, data')
                      ELSE month
          /\ UNCHANGED <<tz, clock, currentMonthDate, view, previousView,
                         form, currentDetailItem, visibilityState>>

\* reader.onload of importJSON(file), from a view that has the import button
Import(file) ==
  /\ view \in {"home", "monthly", "list"}
  /\ IF ImportFails(file)
     THEN UNCHANGED vars
     ELSE /\ Len(data) + Len(ValidData(tz, clock, file)) <= MaxStoreDefs
          /\ data' = saveData(tz, clock,
                              data \o ValidData(tz, clock, file))
          /\ week' = RenderWeek(tz, clock, data')
          /\ pendingTimers' = SetRefreshTimer(pendingTimers)
          /\ month' = IF view = "monthly"
                      THEN RenderMonth(tz, currentMonthDate, data')
                      ELSE month
          /\ UNCHANGED <<tz, clock, currentMonthDate, view, previousView,
                         form, currentDetailItem, visibilityState>>

\* the stored classes when the store is written: a running one, one that
\* ended on 2025-02-15, one that ended on 2025-03-01
StorePool ==
  { ClassItem("A", <<"Monday">>, <<2025, 9, 1>>, <<2025, 11, 29>>,
              TimeString(9, 0), TimeString(10, 30), << <<2025, 9, 29>> >>),
    ClassItem("P", <<"Monday">>, <<2024, 9, 2>>, <<2025, 2, 15>>,
              TimeString(9, 0), TimeString(10, 0), <<>>),
    ClassItem("Q", <<"Monday">>, <<2024, 9, 2>>, <<2025, 3, 1>>,
              TimeString(9, 0), TimeString(10, 0), <<>>) }

StoreLists == UNION {[1..n -> StorePool] : n \in 0..MaxStoreDefs}

\* the page has loaded with such classes in the store
InitStore ==
  /\ tz \in HostZones
  /\ clock = AtHKT(2025, 9, 1, 10, 30)
  /\ data \in StoreLists
  /\ week = RenderWeek(tz, clock, data)
  /\ currentMonthDate = getHKTDate(tz, clock)
  /\ month = NULL
  /\ view = "home"
  /\ PageLoaded

\* the class form and the list view: add, edit, delete, clear
NextStore ==
  \/ ShowList
  \/ ShowAdd
  \/ Fill
  \/ Submit
  \/ \E i \in 1..MaxStoreDefs : EditFromList(i)
  \/ \E i \in 1..MaxStoreDefs : DeleteFromList(i)
  \/ ClearAll

SpecStore == InitStore /\ [][NextStore]_vars

\* import into such a store
NextImport ==
  \/ ShowHome
  \/ ShowMonthly
  \/ ShowList
  \/ \E file \in ImportFiles : Import(file)

SpecImport == InitStore /\ [][NextImport]_vars

\* at most this many stored definitions when the detail view is explored
MaxDetailDefs == 2

\* the stored classes when the detail view is explored: two that share crn
\* and title
DetailPool ==
  { ClassItem("A", <<"Monday">>, <<2025, 9, 1>>, <<2025, 11, 29>>,
              TimeString(9, 0), TimeString(10, 30), << <<2025, 9, 29>> >>),
    ClassItem("A", <<"Wednesday">>, <<2025, 8, 25>>, <<2025, 11, 29>>,
              TimeString(14, 0), TimeString(15, 0), <<>>) }

DetailLists == UNION {[1..n -> DetailPool] : n \in 0..MaxDetailDefs}

\* the page has loaded with such classes in the store
InitDetail ==
  /\ tz \in HostZones
  /\ clock = AtHKT(2025, 9, 1, 10, 30)
  /\ data \in DetailLists
  /\ week = RenderWeek(tz, clock, data)
  /\ currentMonthDate = getHKTDate(tz, clock)
  /\ month = NULL
  /\ view = "home"
  /\ PageLoaded

\* the views and the detail view with its buttons
NextDetail ==
  \/ ShowMonthly
  \/ ShowList
  \/ ShowAdd
  \/ \E i \in 1..MaxDetailDefs : ShowClassDetails(i)
  \/ CloseDetail
  \/ EditFromDetail
  \/ DeleteFromDetail

SpecDetail == InitDetail /\ [][NextDetail]_vars

----------------------------------------------------------------------------
(* The refresh timer of render() and the visibility of the document        *)

\* the delay of the refresh timer, 60000 ms, in minutes
RefreshMinutes == 1

\* the instant of the render() that produced the timetable on the page:
\* its now is getHKTDate() of that instant
RenderedAt == week.now - HKTOffset - getTimezoneOffset(tz)

\* the instant at which the timer of that render() is due
TimerDue == RenderedAt + RefreshMinutes

\* the clock is followed for at most this many minutes
MaxMinutes == 3

\* the instant the page is loaded when the timer is followed
LoadInstant == AtHKT(2025, 9, 1, 10, 13)

\* a minute passes; a pending timer fires when it is due, not later
Minute ==
  /\ clock < LoadInstant + MaxMinutes
  /\ pendingTimers > 0 => clock < TimerDue
  /\ clock' = clock + 1
  /\ UNCHANGED <<tz, data, week, currentMonthDate, month, view, previousView,
                 form, currentDetailItem, pendingTimers, visibilityState>>

\* the callback of the refresh timer: render() if the document is visible
TimerFires ==
  /\ pendingTimers > 0
  /\ clock >= TimerDue
  /\ IF visibilityState = "visible"
     THEN /\ week' = RenderWeek(tz, clock, data)
          /\ pendingTimers' = SetRefreshTimer(pendingTimers - 1)
     ELSE /\ week' = week
          /\ pendingTimers' = pendingTimers - 1
  /\ UNCHANGED <<tz, clock, data, currentMonthDate, month, view,
                 previousView, form, currentDetailItem, visibilityState>>

\* the document is hidden: the visibilitychange handler does nothing
Hide ==
  /\ visibilityState = "visible"
  /\ visibilityState' = "hidden"
  /\ UNCHANGED <<tz, clock, data, week, currentMonthDate, month, view,
                 previousView, form, currentDetailItem, pendingTimers>>

\* the document becomes visible: the visibilitychange handler calls
\* render() if the home view is shown
BecomeVisible ==
  /\ visibilityState = "hidden"
  /\ visibilityState' = "visible"
  /\ IF view = "home"
     THEN /\ week' = RenderWeek(tz, clock, data)
          /\ pendingTimers' = SetRefreshTimer(pendingTimers)
     ELSE /\ week' = week
          /\ pendingTimers' = pendingTimers
  /\ UNCHANGED <<tz, clock, data, currentMonthDate, month, view,
                 previousView, form, currentDetailItem>>

\* at most this many stored definitions when the timer is followed
MaxRefreshDefs == 1

\* the classes B and C of the pool
RefreshLists ==
  UNION {[1..n -> {it \in ItemPool : it.crn \in {"B", "C"}}] :
           n \in 0..MaxRefreshDefs}

\* the script has run at 10:13 in Hong Kong, in a visible or a hidden
\* document, and the DOMContentLoaded handler has not: no view has been
\* shown, nothing is rendered, no timer is set
InitRefresh ==
  /\ tz \in HostZones
  /\ clock = LoadInstant
  /\ data \in RefreshLists
  /\ week = NULL
  /\ currentMonthDate = getHKTDate(tz, clock)
  /\ month = NULL
  /\ view = "none"
  /\ previousView = "home"
  /\ form = BlankForm
  /\ currentDetailItem = NULL
  /\ pendingTimers = 0
  /\ visibilityState \in {"visible", "hidden"}

\* the DOMContentLoaded handler and the Home button (ShowHome), the List
\* button once the page has loaded, the timer, the visibility of the
\* document
NextRefresh ==
  \/ ShowHome
  \/ (view # "none" /\ ShowList)
  \/ Minute
  \/ TimerFires
  \/ Hide
  \/ BecomeVisible

SpecRefresh == InitRefresh /\ [][NextRefresh]_vars

\* the weekly timetable: the page is on the home view
Next ==
  \/ Tick
  \/ ShowHome

Spec == Init /\ [][Next]_vars

\* the monthly calendar, opened when the page has loaded
InitMonthly ==
  /\ tz \in HostZones
  /\ clock = AtHKT(2025, 9, 1, 10, 30)
  /\ data \in CalendarLists
  /\ week = RenderWeek(tz, clock, data)
  /\ currentMonthDate = getHKTDate(tz, clock)
  /\ month = NULL
  /\ view = "home"
  /\ PageLoaded

NextMonthly ==
  \/ ShowMonthly
  \/ PrevMonth
  \/ NextMonth
  \/ TodayMonth

SpecMonthly == InitMonthly /\ [][NextMonthly]_vars

\* both views: the calendar, and back to the timetable
NextViews ==
  \/ ShowHome
  \/ ShowMonthly
  \/ PrevMonth
  \/ NextMonth
  \/ TodayMonth

\* at most this many stored definitions when both views are explored
MaxViewDefs == 2

\* the classes A, B and E of the pool
ViewLists ==
  UNION {[1..n -> {it \in ItemPool : it.crn \in {"A", "B", "E"}}] :
           n \in 0..MaxViewDefs}

InitViews ==
  /\ tz \in HostZones
  /\ clock = AtHKT(2025, 9, 1, 10, 30)
  /\ data \in ViewLists
  /\ week = RenderWeek(tz, clock, data)
  /\ currentMonthDate = getHKTDate(tz, clock)
  /\ month = NULL
  /\ view = "home"
  /\ PageLoaded

SpecViews == InitViews /\ [][NextViews]_vars

\* at most this many stored definitions when unchecked entries are explored
MaxUncheckedDefs == 2

\* what the form and importJSON store as they get it: the submit handler
\* checks nothing, the import only asks for a title and non-empty times.
\* A regular class, an imported start time "9:5:7", a date range and a time
\* range entered the wrong way round, and a form sent with no weekday ticked
UncheckedPool ==
  { ClassItem("A", <<"Monday">>, <<2025, 9, 1>>, <<2025, 11, 29>>,
              TimeString(9, 0), TimeString(10, 30), << <<2025, 9, 29>> >>),
    ClassItem("M", <<"Monday", "Tuesday">>, <<2025, 8, 25>>, <<2025, 11, 29>>,
              <<9, Colon, 5, Colon, 7>>, TimeString(10, 0), <<>>),
    ClassItem("R", <<"Monday", "Tuesday">>, <<2025, 11, 29>>, <<2025, 8, 25>>,
              TimeString(10, 0), TimeString(11, 0), <<>>),
    ClassItem("T", <<"Monday", "Tuesday">>, <<2025, 8, 25>>, <<2025, 11, 29>>,
              TimeString(11, 0), TimeString(10, 0), <<>>),
    ClassItem("W", <<>>, <<2025, 8, 25>>, <<2025, 11, 29>>,
              TimeString(10, 0), TimeString(11, 0), <<>>) }

UncheckedLists == UNION {[1..n -> UncheckedPool] : n \in 0..MaxUncheckedDefs}

\* the page has loaded with unchecked entries in the store
InitUnchecked ==
  /\ tz \in HostZones
  /\ clock \in Instants
  /\ data \in UncheckedLists
  /\ week = RenderWeek(tz, clock, data)
  /\ currentMonthDate = getHKTDate(tz, clock)
  /\ month = NULL
  /\ view = "home"
  /\ PageLoaded

SpecUnchecked == InitUnchecked /\ [][Next]_vars

\* at most this many stored definitions when exception dates are explored
MaxExceptionDefs == 2

\* classes with an exception date added through addException: one on a
\* Sunday for a Monday class, one the day before the class becomes valid,
\* and one on a day the class would be held
ExceptionPool ==
  { ClassItem("S", <<"Monday">>, <<2025, 8, 25>>, <<2025, 11, 29>>,
              TimeString(9, 0), TimeString(10, 0), << <<2025, 8, 31>> >>),
    ClassItem("O", <<"Monday", "Tuesday">>, <<2025, 9, 2>>, <<2025, 11, 29>>,
              TimeString(10, 0), TimeString(11, 0), << <<2025, 9, 1>> >>),
    ClassItem("X", <<"Monday">>, <<2025, 8, 25>>, <<2025, 11, 29>>,
              TimeString(11, 0), TimeString(12, 0), << <<2025, 9, 1>> >>) }

ExceptionLists == UNION {[1..n -> ExceptionPool] : n \in 0..MaxExceptionDefs}

\* the page has loaded with such classes in the store
InitExceptions ==
  /\ tz \in HostZones
  /\ clock \in Instants
  /\ data \in ExceptionLists
  /\ week = RenderWeek(tz, clock, data)
  /\ currentMonthDate = getHKTDate(tz, clock)
  /\ month = NULL
  /\ view = "home"
  /\ PageLoaded

SpecExceptions == InitExceptions /\ [][Next]_vars

TypeOK ==
  /\ tz \in HostZones
  /\ clock \in Instants
  /\ Len(data) <= MaxDefs
  /\ view \in {"home", "monthly"}

----------------------------------------------------------------------------
(* What the rendered week is measured against: Hong Kong civil time        *)

\* the instant at which the render in `week` ran (week.now is getHKTDate of it)
RenderInstant == week.now - getTimezoneOffset(tz) - HKTOffset

\* today's day number and the minute of the day, in Hong Kong
Today         == (RenderInstant + HKTOffset) \div MinutesPerDay
CurrentMinute == (RenderInstant + HKTOffset) % MinutesPerDay

\* the calendar date (day number) a Date shows on this host: the date the
\* column header and the calendar cell print for it
ShownDay(t) == LocalDay(tz, t)

\* the definition has an occurrence on day number x
Expected(item, x) ==
  /\ Includes(item.weekdays, DayNames[WeekdayOfDays(x) + 1])
  /\ DaysFromCivil(item.startDate[1], item.startDate[2], item.startDate[3]) <= x
  /\ x <= DaysFromCivil(item.endDate[1], item.endDate[2], item.endDate[3])
  /\ ~Includes(item.exceptions, CivilFromDays(x))

StartMinute(i) == MinutesOf(data[i].startTime)
EndMinute(i)   == MinutesOf(data[i].endTime)

\* the half-open intervals of stored definitions i and j intersect
Intersect(i, j) ==
  Max2(StartMinute(i), StartMinute(j)) < Min2(EndMinute(i), EndMinute(j))

ColumnIndexes == 0..(Len(Days) - 1)

Positions(col) == 1..Len(col.classes)

----------------------------------------------------------------------------
(* C2  No-overlap guarantee: in the track assignment of every day column,  *)
(* two occurrences whose half-open intervals [startMinute, endMinute)      *)
(* intersect are assigned different tracks.                                *)
NoOverlapGuarantee ==
  \A dayIndex \in ColumnIndexes :
    LET col == week.columns[dayIndex] IN
    \A p, q \in Positions(col) :
      (p # q /\ Intersect(col.classes[p], col.classes[q]))
        => col.classTracks[p] # col.classTracks[q]

\* a column in which an occurrence overlaps an earlier one that is still
\* running when it ends
NoOverlapWitness ==
  \E dayIndex \in ColumnIndexes :
    LET col == week.columns[dayIndex] IN
    \E p, q \in Positions(col) :
      /\ p < q
      /\ Intersect(col.classes[p], col.classes[q])
      /\ EndMinute(col.classes[p]) < EndMinute(col.classes[q])

(* C8  Trivial layout case: in a day column whose occurrences are pairwise *)
(* non-overlapping (one ending at the minute the next starts included),    *)
(* every occurrence has track 0 and totalTracks is 1.                      *)
TrivialLayout ==
  \A dayIndex \in ColumnIndexes :
    LET col == week.columns[dayIndex] IN
    (\A p, q \in Positions(col) :
        p # q => ~Intersect(col.classes[p], col.classes[q]))
      => /\ \A p \in Positions(col) : col.classTracks[p] = 0
         /\ col.totalTracks = 1

\* a column with two occurrences, one ending at the minute the other starts
TrivialLayoutWitness ==
  \E dayIndex \in ColumnIndexes :
    LET col == week.columns[dayIndex] IN
    /\ Len(col.classes) = 2
    /\ EndMinute(col.classes[1]) = StartMinute(col.classes[2])
    /\ col.classTracks = <<0, 0>>

(* C9  totalTracks of a day column is one value for the whole column and   *)
(* equals the highest track index assigned in it plus one, so every        *)
(* assigned track t satisfies 0 <= t < totalTracks.                        *)
TotalTracksIsMaxPlusOne ==
  \A dayIndex \in ColumnIndexes :
    LET col == week.columns[dayIndex] IN
    Len(col.classes) > 0 =>
      /\ \E p \in Positions(col) : col.totalTracks = col.classTracks[p] + 1
      /\ \A p \in Positions(col) :
           0 <= col.classTracks[p] /\ col.classTracks[p] < col.totalTracks

\* a column that needs three tracks
TotalTracksWitness ==
  \E dayIndex \in ColumnIndexes :
    /\ week.columns[dayIndex].totalTracks = 3
    /\ \E p \in Positions(week.columns[dayIndex]) :
         week.columns[dayIndex].classTracks[p] = 2

----------------------------------------------------------------------------
(* The resolver, measured against the occurrences of the visible week      *)

OccIndexes == 1..Len(week.occTimes)

\* occurrence o is dated today
DatedToday(o) == ShownDay(o.day) = Today

\* occurrence o is strictly in the future
InFuture(o) ==
  \/ ShownDay(o.day) > Today
  \/ ShownDay(o.day) = Today /\ o.startM > CurrentMinute

\* canonical order: ascending date, then start minute, then definition order
CanonicalBefore(a, b) ==
  \/ ShownDay(a.day) < ShownDay(b.day)
  \/ ShownDay(a.day) = ShownDay(b.day) /\ a.startM < b.startM
  \/ ShownDay(a.day) = ShownDay(b.day) /\ a.startM = b.startM /\ a.idx < b.idx

\* o is the first, in canonical order, of the occurrences that satisfy P
FirstOf(o, P(_)) ==
  /\ o # NULL
  /\ \E k \in OccIndexes : week.occTimes[k] = o /\ P(o)
  /\ \A k \in OccIndexes :
       (P(week.occTimes[k]) /\ week.occTimes[k] # o)
         => CanonicalBefore(o, week.occTimes[k])

\* occurrence o contains the current minute
ContainsNow(o) == o.startM <= CurrentMinute /\ CurrentMinute < o.endM

InProgress(o) == DatedToday(o) /\ ContainsNow(o)

UpcomingToday(o) == DatedToday(o) /\ o.startM > CurrentMinute

(* C3  Current half-open interval: an occurrence is reported as current    *)
(* only if its date is today and startMinute <= currentMinute < endMinute; *)
(* an occurrence of today that starts exactly at the current minute makes  *)
(* the resolver report a current occurrence, and an occurrence whose       *)
(* endMinute equals the current minute is never current.                   *)
CurrentHalfOpen ==
  /\ week.current # NULL => InProgress(week.current)
  /\ (\E k \in OccIndexes : /\ DatedToday(week.occTimes[k])
                            /\ week.occTimes[k].startM = CurrentMinute
                            /\ week.occTimes[k].endM > CurrentMinute)
       => week.current # NULL
  /\ week.current # NULL => week.current.endM # CurrentMinute

(* C4  Current tie-break: when several occurrences of today contain the    *)
(* current minute, current is the first of them in canonical order.        *)
CurrentTieBreak ==
  Cardinality({k \in OccIndexes : InProgress(week.occTimes[k])}) >= 2
    => FirstOf(week.current, InProgress)

(* C7  nextToday is the earliest occurrence dated today whose startMinute  *)
(* is strictly greater than the current minute, and null when there is     *)
(* none.                                                                   *)
NextTodayIsEarliestToday ==
  IF \E k \in OccIndexes : UpcomingToday(week.occTimes[k])
  THEN FirstOf(week.nextToday, UpcomingToday)
  ELSE week.nextToday = NULL

(* C5  next is the earliest occurrence, in canonical order, that is        *)
(* strictly in the future (today with startMinute > currentMinute, or on a *)
(* later day); an occurrence dated before today, or today with             *)
(* startMinute <= currentMinute, is never next.                            *)
NextIsEarliestFuture ==
  IF \E k \in OccIndexes : InFuture(week.occTimes[k])
  THEN FirstOf(week.next, InFuture)
  ELSE week.next = NULL

(* C6  next is computed over all future occurrences, not only this        *)
(* week's: whenever some definition has an occurrence on a date after      *)
(* today (a date of a later week included), next is non-null, lies in the  *)
(* future and is not later than the earliest such date.                    *)
LookAhead == 14

LaterDates ==
  {x \in (Today + 1)..(Today + LookAhead) :
     \E i \in 1..Len(data) : Expected(data[i], x)}

NextOverAllFuture ==
  LaterDates # {} =>
    /\ week.next # NULL
    /\ InFuture(week.next)
    /\ \A x \in LaterDates : ShownDay(week.next.day) <= x

----------------------------------------------------------------------------
(* The expanders, measured against the existence rule                      *)

\* the Monday..Sunday week that contains today
WeekWindow ==
  LET monday == Today - ((WeekdayOfDays(Today) + 6) % 7)
  IN  monday..(monday + DaysInWeek - 1)

\* the dates of the month the calendar shows
MonthWindow ==
  DaysFromCivil(month.year, month.month + 1, 1)
    ..(DaysFromCivil(month.year + (month.month + 1) \div 12,
                     ((month.month + 1) % 12) + 1, 1) - 1)

\* render() has an occurrence of definition i on day number x
WeekProduces(i, x) ==
  \E k \in OccIndexes :
    week.occTimes[k].idx = i /\ ShownDay(week.occTimes[k].day) = x

\* the calendar shows an event of definition i in the cell of day number x
MonthProduces(i, x) ==
  \E c \in 1..Len(month.cells) :
    ShownDay(month.cells[c].date) = x /\ Includes(month.cells[c].events, i)

(* C1  Existence invariant: for every definition D and every date X of the *)
(* expanded window (the visible week of render, the shown month of the     *)
(* calendar), an occurrence of D on X is produced if and only if           *)
(* weekday(X) is in D.weekdays, D.validFrom <= X <= D.validUntil and X is  *)
(* not in D.exceptionDates.                                                *)
ExistenceInvariant ==
  /\ \A i \in 1..Len(data) : \A x \in WeekWindow :
       WeekProduces(i, x) <=> Expected(data[i], x)
  /\ month # NULL =>
       \A i \in 1..Len(data) : \A x \in MonthWindow :
         MonthProduces(i, x) <=> Expected(data[i], x)

----------------------------------------------------------------------------
(* Adjacent windows of the calendar                                        *)

\* the grid of the month after the one shown, as #nextMonth would render it
FollowingGrid ==
  GridCells(tz, data,
            GridStart(tz, setMonth(tz, currentMonthDate,
                                   getMonth(tz, currentMonthDate) + 1)),
            GridDays)

\* the number of cells of the shown grid that precede the following grid
CellsBefore(grid) ==
  Cardinality({c \in 1..Len(month.cells) :
                 ShownDay(month.cells[c].date) < ShownDay(grid[1].date)})

----------------------------------------------------------------------------
(* The three date tests of the expanders, measured against each other      *)

\* the day number of an ISO date string
DayNumber(iso) == DaysFromCivil(iso[1], iso[2], iso[3])

\* the Dates the expanders examine: the seven days of the visible week and
\* the cells of the calendar
ExaminedDates ==
  {WeekDayDate(tz, week.weekStart, d) : d \in 0..(DaysInWeek - 1)}
    \cup (IF month = NULL THEN {}
          ELSE {month.cells[c].date : c \in 1..Len(month.cells)})

(* C11  Timezone consistency: for every date examined during expansion,    *)
(* the calendar date whose weekday is tested against weekdays, the         *)
(* YYYY-MM-DD string tested against the exception dates and the date       *)
(* compared with validFrom/validUntil are the same civil date, whatever    *)
(* the host's timezone offset is.                                          *)
TimezoneConsistency ==
  \A day \in ExaminedDates :
    LET x == ShownDay(day) IN
    /\ formatHKTDateString(tz, day) = CivilFromDays(x)
    /\ \A i \in 1..Len(data) :
         /\ (day < getHKTDateISO(tz, data[i].startDate))
              <=> (x < DayNumber(data[i].startDate))
         /\ (day > getHKTDateISO(tz, data[i].endDate))
              <=> (x > DayNumber(data[i].endDate))

----------------------------------------------------------------------------
(* Entries the specification calls malformed                               *)

\* the string is a time of day written HH:MM
WellFormedTime(str) ==
  /\ Len(str) = 5
  /\ str[3] = Colon
  /\ \A k \in {1, 2, 4, 5} : str[k] \in 0..9
  /\ str[1] * 10 + str[2] <= 23
  /\ str[4] * 10 + str[5] <= 59

MalformedTime(item) ==
  ~WellFormedTime(item.startTime) \/ ~WellFormedTime(item.endTime)

InvalidRange(item) ==
  \/ DayNumber(item.startDate) > DayNumber(item.endDate)
  \/ MinutesOf(item.startTime) >= MinutesOf(item.endTime)

EmptyWeekdaySet(item) == Len(item.weekdays) = 0

\* no occurrence of the rendered week comes from a definition that is Bad
Skipped(Bad(_)) ==
  \A i \in 1..Len(data) :
    Bad(data[i]) => \A k \in OccIndexes : week.occTimes[k].idx # i

\* the definitions that are not Bad have their occurrences in the rendered
\* week, on every day the three tests of the loop pass
OthersProduced(Bad(_)) ==
  \A i \in 1..Len(data) : \A d \in 0..(DaysInWeek - 1) :
    LET day == WeekDayDate(tz, week.weekStart, d) IN
    (~Bad(data[i]) /\ OccursOn(tz, data[i], day))
      => \E k \in OccIndexes :
           week.occTimes[k].idx = i /\ week.occTimes[k].day = day

(* C12  Malformed time strings never crash expansion: a definition whose   *)
(* startTime or endTime is missing or not parseable as HH:MM is skipped    *)
(* (it produces no occurrence) and the occurrences of all other            *)
(* definitions in the same batch are still produced.                       *)
MalformedTimeSkipped ==
  Skipped(MalformedTime) /\ OthersProduced(MalformedTime)

\* the definition is one the specification's validation rejects
Rejected(item) == InvalidRange(item) \/ EmptyWeekdaySet(item)

(* C13  Each definition is validated independently: a definition with      *)
(* validFrom > validUntil, with startTime >= endTime, or with an empty     *)
(* weekday set is excluded from the expander's output, and its presence    *)
(* never prevents the remaining definitions from being expanded.           *)
IndependentValidation ==
  Skipped(Rejected) /\ OthersProduced(Rejected)

----------------------------------------------------------------------------
(* C14  startOfWeek(d) returns the Monday on or before d with the time of  *)
(* day zeroed: for a Sunday the Monday six days earlier, for a Monday that *)
(* same day; the result is never after d's date and at most 6 days before  *)
(* it, and startOfWeek(startOfWeek(d)) = startOfWeek(d).  Stated for the   *)
(* call render() makes, d = week.now.                                      *)
StartOfWeekIsMonday ==
  LET d == week.now
      r == week.weekStart
  IN  /\ r = startOfWeek(tz, d)
      /\ getDay(tz, r) = 1
      /\ getHours(tz, r) = 0 /\ getMinutes(tz, r) = 0
      /\ LocalDay(tz, r) <= LocalDay(tz, d)
      /\ LocalDay(tz, d) - LocalDay(tz, r) <= 6
      /\ startOfWeek(tz, r) = r

----------------------------------------------------------------------------
(* C15  The month grid starts on the Sunday on or before the 1st of the    *)
(* displayed month and spans exactly 42 consecutive dates (start through   *)
(* start + 41), and every date of the displayed month lies inside that     *)
(* range.                                                                  *)
MonthGridCoversMonth ==
  month # NULL =>
    LET first == DaysFromCivil(month.year, month.month + 1, 1)
        start == ShownDay(month.cells[1].date)
    IN  /\ WeekdayOfDays(start) = 0
        /\ start <= first /\ first - start <= 6
        /\ Len(month.cells) = GridDays
        /\ \A c \in 1..Len(month.cells) :
             ShownDay(month.cells[c].date) = start + c - 1
        /\ \A x \in MonthWindow : start <= x /\ x <= start + GridDays - 1

----------------------------------------------------------------------------
(* C16  Expansion, current/next resolution and track layout leave the      *)
(* definition collection unchanged: after a render (weekly or monthly) the *)
(* stored list has the same definitions, in the same order and with the    *)
(* same field values, as before the render.                                *)
RenderKeepsStore ==
  [][(ShowHome \/ ShowMonthly \/ PrevMonth \/ NextMonth \/ TodayMonth)
       => data' = data]_vars

\* both renders have run, and the weekly one has sorted a column into an
\* order that is not the stored one
RenderKeepsStoreWitness ==
  /\ month # NULL
  /\ view = "home"
  /\ \E dayIndex \in ColumnIndexes :
       LET col == week.columns[dayIndex] IN
       \E p, q \in Positions(col) : p < q /\ col.classes[p] > col.classes[q]

----------------------------------------------------------------------------
\* day number x is the first or the last day of validity of the definition
IsBound(item, x) ==
  x = DayNumber(item.startDate) \/ x = DayNumber(item.endDate)

(* C17  Validity bounds are inclusive at both ends: a definition whose     *)
(* weekday set contains weekday(validFrom) produces an occurrence on       *)
(* validFrom itself, and likewise on validUntil itself, when neither date  *)
(* is an exception.                                                        *)
InclusiveBounds ==
  /\ \A i \in 1..Len(data) : \A x \in WeekWindow :
       (IsBound(data[i], x) /\ Expected(data[i], x)) => WeekProduces(i, x)
  /\ month # NULL =>
       \A i \in 1..Len(data) : \A x \in MonthWindow :
         (IsBound(data[i], x) /\ Expected(data[i], x)) => MonthProduces(i, x)

----------------------------------------------------------------------------
(* The track assignment, measured against the greedy rule                  *)

\* track t is free for the class at position p of the column: no class at
\* an earlier position that was given track t intersects it
TrackFree(col, p, t) ==
  \A q \in 1..(p - 1) :
    col.classTracks[q] = t => ~Intersect(col.classes[q], col.classes[p])

\* the minutes of the span of stored definition i, counted from the first
\* hour row of the table
SpanOf(i) ==
  (StartMinute(i) - EarliestHour(data) * 60)
    ..(EndMinute(i) - EarliestHour(data) * 60 - 1)

(* C18  Greedy lowest track: a day's occurrences are processed in          *)
(* ascending (startMinute, endMinute) order, each occurrence is assigned   *)
(* the lowest-numbered track that is free on every minute of its           *)
(* [startMinute, endMinute) span, and that span is then marked occupied    *)
(* on that track only.                                                     *)
GreedyLowestTrack ==
  \A dayIndex \in ColumnIndexes :
    LET col == week.columns[dayIndex] IN
    /\ \A p, q \in Positions(col) :
         p < q =>
           \/ StartMinute(col.classes[p]) < StartMinute(col.classes[q])
           \/ /\ StartMinute(col.classes[p]) = StartMinute(col.classes[q])
              /\ EndMinute(col.classes[p]) <= EndMinute(col.classes[q])
    /\ \A p \in Positions(col) :
         /\ col.classTracks[p] >= 0
         /\ TrackFree(col, p, col.classTracks[p])
         /\ \A t \in 0..(col.classTracks[p] - 1) : ~TrackFree(col, p, t)
    /\ AssignTracks(data, EarliestHour(data), col.classes, 1, {}, <<>>).slots
         = UNION {{<<min, col.classTracks[p]>> : min \in SpanOf(col.classes[p])}
                    : p \in Positions(col)}

\* a column in which a class goes back to track 0 after an earlier class
\* had to take track 1
GreedyLowestTrackWitness ==
  \E dayIndex \in ColumnIndexes :
    LET col == week.columns[dayIndex] IN
    \E q, r \in Positions(col) :
      q < r /\ col.classTracks[q] = 1 /\ col.classTracks[r] = 0

----------------------------------------------------------------------------
(* C19  Whenever nextToday is non-null, next is the same occurrence as     *)
(* nextToday.                                                              *)
NextTodayIsNext ==
  week.nextToday # NULL => week.next = week.nextToday

----------------------------------------------------------------------------
(* C20  Canonical order: the resolver walks the occurrences sorted         *)
(* ascending by (date, startMinute), and occurrences with identical date   *)
(* and startMinute keep the relative order of their source definitions in  *)
(* the definition list.                                                    *)
CanonicalOrder ==
  \A k, l \in OccIndexes :
    k < l => CanonicalBefore(week.occTimes[k], week.occTimes[l])

\* the walk has two occurrences of one date and start minute, from two
\* definitions, and two occurrences of one date that are stored in the
\* opposite order of their start minutes
CanonicalOrderWitness ==
  /\ \E k, l \in OccIndexes :
       /\ k < l
       /\ week.occTimes[k].day = week.occTimes[l].day
       /\ week.occTimes[k].startM = week.occTimes[l].startM
  /\ \E k, l \in OccIndexes :
       /\ k < l
       /\ week.occTimes[k].day = week.occTimes[l].day
       /\ week.occTimes[k].idx > week.occTimes[l].idx

----------------------------------------------------------------------------
(* Exception dates that cannot match an occurrence                         *)

\* the exception date e lies outside the validity range of the definition,
\* or on a weekday the definition is not held on
Ineffective(item, e) ==
  \/ DayNumber(e) < DayNumber(item.startDate)
  \/ DayNumber(e) > DayNumber(item.endDate)
  \/ ~Includes(item.weekdays, DayNames[WeekdayOfDays(DayNumber(e)) + 1])

\* the stored list with the k-th exception date of definition i taken out
WithoutException(i, k) ==
  [data EXCEPT ![i].exceptions =
     SubSeq(@, 1, k - 1) \o SubSeq(@, k + 1, Len(@))]

(* C21  An exception date that lies outside [validFrom, validUntil], or    *)
(* whose weekday is not in the definition's weekday set, has no effect:    *)
(* the occurrences produced with and without that exception date are       *)
(* identical, in render() and in getEventsForDay().                        *)
IneffectiveExceptions ==
  \A i \in 1..Len(data) : \A k \in 1..Len(data[i].exceptions) :
    Ineffective(data[i], data[i].exceptions[k]) =>
      LET without == RenderWeek(tz, RenderInstant, WithoutException(i, k))
      IN  /\ without.occTimes = week.occTimes
          /\ without.columns = week.columns
          /\ \A d \in 0..(DaysInWeek - 1) :
               LET day == WeekDayDate(tz, week.weekStart, d)
               IN  getEventsForDay(tz, WithoutException(i, k), day)
                     = getEventsForDay(tz, data, day)

----------------------------------------------------------------------------
(* The track count, measured against the classes in progress together      *)

\* the number of classes of the column in progress at minute m
InProgressAt(col, m) ==
  Cardinality({p \in Positions(col) :
                 StartMinute(col.classes[p]) <= m
                   /\ m < EndMinute(col.classes[p])})

\* the largest number of classes of the column in progress at one minute;
\* it is reached at the minute one of them starts, and is 0 for a column
\* without classes
MaxSimultaneous(col) ==
  LET counts == {InProgressAt(col, StartMinute(col.classes[p])) :
                   p \in Positions(col)} \cup {0}
  IN  CHOOSE n \in counts : \A k \in counts : k <= n

(* C22  The track count produced by the layout equals the maximum number   *)
(* of the day's occurrences that are simultaneously in progress at any     *)
(* single minute; the start-sorted greedy never uses more tracks than that *)
(* maximum.                                                                *)
TrackCountIsMaxSimultaneous ==
  \A dayIndex \in ColumnIndexes :
    LET col == week.columns[dayIndex] IN
    /\ col.totalTracks = MaxSimultaneous(col)
    /\ \A p \in Positions(col) : col.classTracks[p] < MaxSimultaneous(col)

(* C22, amended  The track count of a day column equals the maximum number *)
(* of the day's occurrences simultaneously in progress at any single       *)
(* minute, and 1 for a day without occurrences; the greedy never uses a    *)
(* track index at or above that maximum.                                   *)
TrackCountIsMaxSimultaneousOrOne ==
  \A dayIndex \in ColumnIndexes :
    LET col == week.columns[dayIndex] IN
    /\ col.totalTracks = Max2(1, MaxSimultaneous(col))
    /\ \A p \in Positions(col) : col.classTracks[p] < MaxSimultaneous(col)

\* a column of three classes of which never more than two are in progress
\* together
TrackCountWitness ==
  \E dayIndex \in ColumnIndexes :
    LET col == week.columns[dayIndex] IN
    /\ Len(col.classes) = 3
    /\ MaxSimultaneous(col) = 2
    /\ col.totalTracks = 2

----------------------------------------------------------------------------
(* The weekly and the monthly expansion, measured against each other       *)

\* the current/next list has an occurrence of definition i on the Date day
InList(i, day) ==
  \E k \in OccIndexes :
    week.occTimes[k].idx = i /\ week.occTimes[k].day = day

\* the table has definition i in the column of day d of the week
InColumn(i, d) ==
  d \in ColumnIndexes /\ Includes(week.columns[d].classes, i)

(* C23  The weekly expansion in render and the monthly expansion in        *)
(* getEventsForDay agree: for every definition and every date of the       *)
(* current week, the definition has an occurrence on that date in the      *)
(* weekly view (both in the current/next list and in the laid-out day      *)
(* column) exactly when the calendar shows it in the cell of that date.    *)
WeeklyMonthlyAgree ==
  \A i \in 1..Len(data) : \A d \in 0..(DaysInWeek - 1) :
    LET day == WeekDayDate(tz, week.weekStart, d) IN
    /\ InList(i, day) <=> InColumn(i, d)
    /\ month # NULL =>
         \A c \in 1..Len(month.cells) :
           ShownDay(month.cells[c].date) = ShownDay(day) =>
             (InList(i, day) <=> Includes(month.cells[c].events, i))

\* the weekday names of an array of weekdays
WeekdaySet(weekdays) == {weekdays[k] : k \in 1..Len(weekdays)}

\* the two definitions recur on the same weekdays, between the same dates,
\* at the same times, with the same exception dates
SameRecurrence(a, b) ==
  /\ WeekdaySet(a.weekdays) = WeekdaySet(b.weekdays)
  /\ a.startDate = b.startDate
  /\ a.endDate = b.endDate
  /\ a.startTime = b.startTime
  /\ a.endTime = b.endTime
  /\ a.exceptions = b.exceptions

\* the form holds what loadIntoForm left in it for the definition at the
\* (0-based) index
FormAsLoaded(index) ==
  /\ view = "add"
  /\ index + 1 \in 1..Len(data)
  /\ form = LoadedForm(index, data[index + 1])

(* C24  Edit round trip: when a stored definition has been loaded into     *)
(* the form with loadIntoForm(i) and the form is submitted with no field   *)
(* changed, the definition stored at index i has the same weekdays,        *)
(* dates, times and exception dates as before, and the stored list has     *)
(* the same length and the same definitions at every other index.          *)
EditRoundTrip ==
  [][\A index \in 0..(MaxStoreDefs - 1) :
       (FormAsLoaded(index) /\ Submit) =>
         /\ Len(data') = Len(data)
         /\ SameRecurrence(data'[index + 1], data[index + 1])
         /\ \A j \in 1..Len(data) : j # index + 1 => data'[j] = data[j]]_vars

\* position j (1-based) of the stored list holds the definition on display
\* in the detail view
IsDisplayedAt(j) == j \in 1..Len(data) /\ data[j] = currentDetailItem

(* C25  The delete and edit buttons of the detail view act on exactly the  *)
(* definition on display: a confirmed delete leaves the previous list      *)
(* with that one definition removed and every other definition kept, and   *)
(* edit loads the index of that definition, also when several stored       *)
(* definitions share crn and title.                                        *)
DetailActsOnDisplayed ==
  [][/\ DeleteFromDetail =>
          \E j \in 1..Len(data) :
            IsDisplayedAt(j) /\ data' = Splice(data, j - 1)
     /\ EditFromDetail =>
          \E j \in 1..Len(data) :
            IsDisplayedAt(j) /\ form'.editingIndex = IndexString(j - 1)]_vars

\* the calendar date in Hong Kong at the instant t
DateInHongKong(t) == CivilFromDays((t + HKTOffset) \div MinutesPerDay)

\* number of days of month m of year y
DaysInMonth(y, m) ==
  IF m = 12 THEN 31 ELSE DaysFromCivil(y, m + 1, 1) - DaysFromCivil(y, m, 1)

\* the calendar date n months before the date: same day of the month, or
\* the last day of the month when it is shorter
MonthsBefore(date, n) ==
  LET months == date[1] * 12 + (date[2] - 1) - n
      y      == months \div 12
      m      == (months % 12) + 1
  IN  <<y, m, Min2(date[3], DaysInMonth(y, m))>>

\* the date a is not earlier than the date b
NotEarlier(a, b) ==
  DaysFromCivil(a[1], a[2], a[3]) >= DaysFromCivil(b[1], b[2], b[3])

\* the definitions of the list whose endDate is not earlier than six
\* months before the instant t, in unchanged relative order
Retained(t, list) ==
  LET recent(item) ==
        NotEarlier(item.endDate, MonthsBefore(DateInHongKong(t), 6))
  IN  SelectSeq(list, recent)

(* C26  Retention on save: after an operation that saves (add, edit,       *)
(* delete, clear), the stored list is exactly the list passed to saveData  *)
(* restricted to the definitions whose endDate is not earlier than six     *)
(* months before the current instant, in unchanged relative order; a       *)
(* definition whose endDate is within the last six months or in the        *)
(* future is not dropped.                                                  *)
RetentionOnSave ==
  [][/\ Submit => data' = Retained(clock, SubmitList)
     /\ \A i \in 1..MaxStoreDefs :
          DeleteFromList(i) => data' = Retained(clock, Splice(data, i - 1))
     /\ ClearAll => data' = <<>>]_vars

\* the definition has not ended at the instant t: its endDate is the
\* current date in Hong Kong or a later one
NotEnded(t, item) == NotEarlier(item.endDate, DateInHongKong(t))

\* the list kept is the list all less some of its definitions, in unchanged
\* order, and every definition left out had ended at the instant t
PrunedOf(t, all, kept) ==
  \E K \in SUBSET {all[k] : k \in 1..Len(all)} :
    LET inK(item) == item \in K
    IN  /\ kept = SelectSeq(all, inK)
        /\ \A k \in 1..Len(all) : all[k] \notin K => ~NotEnded(t, all[k])

TrackedViews == {"home", "monthly", "list", "add"}

====
